---------------------------- MODULE Spec2Model ----------------------------
(***************************************************************************)
(* Model of dependency_visualizer.py: the Maven dependency-graph builder   *)
(* (construct_pom_url, fetch_pom, extract_properties,                      *)
(* substitute_properties, extract_dependencies, build_dependency_graph)    *)
(* and the renderer boundary (sanitize_filename, visualize_graph).         *)
(*                                                                         *)
(* Python strings are sequences of characters, so that split, strip,       *)
(* replace and the ${...} regular expression are computed the way the code *)
(* computes them.  A run of characters that no operation looks into        *)
(* ("compile", "4.13.2") is written as one element of the sequence.  A     *)
(* value that may be None is a record [some |-> BOOLEAN, val |-> ...].     *)
(***************************************************************************)
EXTENDS Integers, Sequences, FiniteSets, TLC

VARIABLES
    \* build_dependency_graph (one graph build, as main() starts it)
    root,        \* package_coord of the outermost call
    max_depth,   \* max_depth argument
    graph,       \* defaultdict(set): a function whose DOMAIN is the key set
    visited,     \* set of coordinates
    stack,       \* the Python call stack of build_dependency_graph frames
    fetch_log,   \* history: the fetch_pom calls made, in order
    calls,       \* history: the recursive calls made [from, to, depth]
    outcome,     \* "running", "returned" or "raised"
    exc,         \* the exception that left the outermost call ("" if none)
    last,        \* history: the step taken last
    \* construct_pom_url as a pure function
    url_in, url_out,
    \* extract_dependencies as a pure function
    pom_in, deps_out,
    \* visualize_graph
    vz_pc, vz_in, files, run_log, printed, vz_raised

buildVars == <<root, max_depth, graph, visited, stack, fetch_log, calls,
               outcome, exc, last>>
urlVars == <<url_in, url_out>>
extractVars == <<pom_in, deps_out>>
vizVars == <<vz_pc, vz_in, files, run_log, printed, vz_raised>>
vars == <<buildVars, urlVars, extractVars, vizVars>>

-----------------------------------------------------------------------------
(* Python values *)

None == [some |-> FALSE, val |-> <<>>]
Some(v) == [some |-> TRUE, val |-> v]

\* str.split(sep) for a one-character separator: always at least one part.
RECURSIVE Split(_, _)
Split(s, sep) ==
    IF \A i \in 1..Len(s) : s[i] # sep
    THEN <<s>>
    ELSE LET i == CHOOSE k \in 1..Len(s) :
                      s[k] = sep /\ \A j \in 1..(k - 1) : s[j] # sep
         IN <<SubSeq(s, 1, i - 1)>> \o Split(SubSeq(s, i + 1, Len(s)), sep)

\* str.replace(old, new) for a one-character old and new.
Replace(s, old, new) == [i \in 1..Len(s) |-> IF s[i] = old THEN new ELSE s[i]]

\* str.rstrip(chars) for a one-character chars.
RECURSIVE RStrip(_, _)
RStrip(s, ch) ==
    IF Len(s) > 0 /\ s[Len(s)] = ch THEN RStrip(SubSeq(s, 1, Len(s) - 1), ch) ELSE s

Whitespace == {" "}

\* str.strip(): leading and trailing whitespace removed.
RECURSIVE Strip(_)
Strip(s) ==
    IF Len(s) > 0 /\ s[1] \in Whitespace THEN Strip(Tail(s))
    ELSE IF Len(s) > 0 /\ s[Len(s)] \in Whitespace THEN Strip(SubSeq(s, 1, Len(s) - 1))
    ELSE s

\* whether needle occurs in s as a contiguous substring
Contains(s, needle) ==
    \E i \in 1..(Len(s) + 1) :
        i + Len(needle) - 1 <= Len(s) /\ SubSeq(s, i, i + Len(needle) - 1) = needle

Range(s) == {s[i] : i \in 1..Len(s)}

-----------------------------------------------------------------------------
(* construct_pom_url *)

\* The two literal parts of the ValueError message (line 27), each one token:
\* "Неверный формат имени пакета: " and ". Ожидается groupId:artifactId:version".
MsgPrefix == <<"Invalid package name format: ">>
MsgSuffix == <<". Expected groupId:artifactId:version">>

\* the number of parts the split must yield (line 26)
CoordParts == 3

construct_pom_url(package_coord, repo_url) ==
    LET parts == Split(package_coord, ":")
    IN IF Len(parts) # CoordParts
       THEN [raised |-> TRUE,
             message |-> MsgPrefix \o package_coord \o MsgSuffix,
             url |-> <<>>]
       ELSE LET group_id == parts[1]
                artifact_id == parts[2]
                version == parts[3]
                group_path == Replace(group_id, ".", "/")
                pom_filename == artifact_id \o <<"-">> \o version \o <<".", "p", "o", "m">>
            IN [raised |-> FALSE,
                message |-> <<>>,
                url |-> RStrip(repo_url, "/") \o <<"/">> \o group_path \o <<"/">>
                        \o artifact_id \o <<"/">> \o version \o <<"/">> \o pom_filename]

-----------------------------------------------------------------------------
(* Parsed descriptors (xml.etree.ElementTree)                               *)
(*                                                                          *)
(* A parsed POM is [ns, properties, dependencies]: ns says whether the      *)
(* document declares xmlns="http://maven.apache.org/POM/4.0.0", in which    *)
(* case every element of it carries that namespace, and otherwise none      *)
(* does.  properties lists the children of <properties> as [tag, text],     *)
(* dependencies lists the <dependency> elements; a child element of a       *)
(* dependency is [present, text], and text is None for <x/> and <x></x>.    *)

NoElem == [present |-> FALSE, text |-> None]
EmptyElem == [present |-> TRUE, text |-> None]
Elem(t) == [present |-> TRUE, text |-> Some(t)]

Decl(g, a, v, s) == [groupId |-> g, artifactId |-> a, version |-> v, scope |-> s]
Pom(ns, props, deps) == [ns |-> ns, properties |-> props, dependencies |-> deps]

\* pom_tree.findall('.//m:<section>/...', ns): the namespaced query
FindAllNs(pom_tree, section) == IF pom_tree.ns THEN pom_tree[section] ELSE <<>>
\* pom_tree.findall('.//<section>/...'): the query without a namespace
FindAllPlain(pom_tree, section) == IF pom_tree.ns THEN <<>> ELSE pom_tree[section]
\* dep.find('m:<field>', ns): None unless the child carries the namespace
FindNs(pom_tree, dep, field) == IF pom_tree.ns THEN dep[field] ELSE NoElem

\* Python truthiness of an optional string
Truthy(opt) == opt.some /\ Len(opt.val) > 0

EmptyDict == [k \in {} |-> <<>>]
DictSet(d, k, v) == [x \in (DOMAIN d) \cup {k} |-> IF x = k THEN v ELSE d[x]]

RECURSIVE PropertiesFrom(_, _)
PropertiesFrom(nodes, properties) ==
    IF Len(nodes) = 0 THEN properties
    ELSE LET prop == Head(nodes)
         IN PropertiesFrom(Tail(nodes),
                IF Truthy(prop.text)
                THEN DictSet(properties, prop.tag, Strip(prop.text.val))
                ELSE properties)

extract_properties(pom_tree) ==
    LET nsNodes == FindAllNs(pom_tree, "properties")
        properties_nodes == IF Len(nsNodes) = 0
                            THEN FindAllPlain(pom_tree, "properties")
                            ELSE nsNodes
    IN PropertiesFrom(properties_nodes, EmptyDict)

\* whether the pattern \$\{([^}]+)\} matches at the start of s
MatchesAtHead(s) ==
    /\ Len(s) >= 4
    /\ s[1] = "$" /\ s[2] = "{" /\ s[3] # "}"
    /\ \E j \in 4..Len(s) : s[j] = "}"

\* the replacer: the property's value, or the match itself when not found
Replacer(var_name, whole, properties) ==
    IF var_name \in DOMAIN properties THEN properties[var_name] ELSE whole

\* pattern.sub(replacer, text): leftmost, non-overlapping, single pass
RECURSIVE substitute_properties(_, _)
substitute_properties(text, properties) ==
    IF Len(text) = 0 THEN <<>>
    ELSE IF MatchesAtHead(text)
    THEN LET j == CHOOSE k \in 4..Len(text) :
                      text[k] = "}" /\ \A m \in 4..(k - 1) : text[m] # "}"
         IN Replacer(SubSeq(text, 3, j - 1), SubSeq(text, 1, j), properties)
            \o substitute_properties(SubSeq(text, j + 1, Len(text)), properties)
    ELSE <<Head(text)>> \o substitute_properties(Tail(text), properties)

AllowedScopes == {<<"compile">>, <<"runtime">>, <<"system">>}

\* scope.text.strip() on a <scope/> element: None has no strip (line 100)
ScopeRaises(scope) == scope.present /\ ~scope.text.some

ScopeSkipped(scope) == scope.present /\ Strip(scope.text.val) \notin AllowedScopes

\* lines 107-111: the stripped version text, substituted when it is truthy
VersionText(version, properties) ==
    LET version_text == IF version.present /\ Truthy(version.text)
                        THEN Some(Strip(version.text.val))
                        ELSE None
    IN IF Truthy(version_text)
       THEN Some(substitute_properties(version_text.val, properties))
       ELSE version_text

ElemText(e) == IF Truthy(e.text) THEN Strip(e.text.val) ELSE <<>>

\* one iteration of the loop of lines 93-117: "raise", "skip" or "emit"
DepStep(pom_tree, dep, properties) ==
    LET group_id == FindNs(pom_tree, dep, "groupId")
        artifact_id == FindNs(pom_tree, dep, "artifactId")
        version == FindNs(pom_tree, dep, "version")
        scope == FindNs(pom_tree, dep, "scope")
        version_text == VersionText(version, properties)
    IN IF ScopeRaises(scope) THEN [kind |-> "raise", coord |-> <<>>]
       ELSE IF ScopeSkipped(scope) THEN [kind |-> "skip", coord |-> <<>>]
       ELSE IF ~group_id.present \/ ~artifact_id.present
            THEN [kind |-> "skip", coord |-> <<>>]
       ELSE IF ~version_text.some THEN [kind |-> "skip", coord |-> <<>>]
       ELSE [kind |-> "emit",
             coord |-> ElemText(group_id) \o <<":">> \o ElemText(artifact_id)
                       \o <<":">> \o version_text.val]

RECURSIVE DepLoop(_, _, _, _)
DepLoop(pom_tree, nodes, properties, dependencies) ==
    IF Len(nodes) = 0
    THEN [raised |-> FALSE, exc |-> "", val |-> dependencies]
    ELSE LET r == DepStep(pom_tree, Head(nodes), properties)
         IN IF r.kind = "raise"
            THEN [raised |-> TRUE, exc |-> "AttributeError", val |-> <<>>]
            ELSE DepLoop(pom_tree, Tail(nodes), properties,
                         IF r.kind = "emit" THEN Append(dependencies, r.coord)
                         ELSE dependencies)

extract_dependencies(pom_tree) ==
    LET nsNodes == FindAllNs(pom_tree, "dependencies")
        dependency_nodes == IF Len(nsNodes) = 0
                            THEN FindAllPlain(pom_tree, "dependencies")
                            ELSE nsNodes
        properties == extract_properties(pom_tree)
    IN DepLoop(pom_tree, dependency_nodes, properties, <<>>)

-----------------------------------------------------------------------------
(* fetch_pom                                                                *)
(*                                                                          *)
(* What urlopen(pom_url) does is the environment's choice: it raises        *)
(* URLError (a network failure, or the HTTPError of an error status), or    *)
(* it answers with a status and a body that is well-formed XML or not.      *)

StatusOK == 200

Response(urlerror, status, wellformed, pom) ==
    [urlerror |-> urlerror, status |-> status, wellformed |-> wellformed, pom |-> pom]

fetch_pom(resp) ==
    IF resp.urlerror THEN None                 \* except urllib.error.URLError
    ELSE IF resp.status # StatusOK THEN None   \* response.status != 200
    ELSE IF ~resp.wellformed THEN None         \* except ET.ParseError
    ELSE Some(resp.pom)

-----------------------------------------------------------------------------
(* Fixtures: the coordinates and descriptors of test_build_dependency_graph *)
(* and of the end-to-end scenario, and descriptors that close cycles, use   *)
(* properties, or are shaped unexpectedly.                                  *)

Coord(g, a, v) == g \o <<":">> \o a \o <<":">> \o v

CoordA == Coord(<<"g">>, <<"a">>, <<"1.0.0">>)
CoordJ == Coord(<<"j">>, <<"j">>, <<"4.13.2">>)
CoordIO == Coord(<<"g">>, <<"io">>, <<"2.8.0">>)
CoordH == Coord(<<"h">>, <<"h">>, <<"1.3">>)
\* a root with two segments only
CoordShort == <<"g", ":", "a">>

DeclA == Decl(Elem(<<"g">>), Elem(<<"a">>), Elem(<<"1.0.0">>), NoElem)
DeclJ == Decl(Elem(<<"j">>), Elem(<<"j">>), Elem(<<"4.13.2">>), Elem(<<"compile">>))
DeclIO == Decl(Elem(<<"g">>), Elem(<<"io">>), Elem(<<"2.8.0">>), NoElem)
DeclH == Decl(Elem(<<"h">>), Elem(<<"h">>), Elem(<<"1.3">>), NoElem)
DeclHTest == Decl(Elem(<<"h">>), Elem(<<"h">>), Elem(<<"1.3">>), Elem(<<"test">>))
DeclHProp == Decl(Elem(<<"h">>), Elem(<<"h">>), Elem(<<"$", "{", "v", "}">>), NoElem)
DeclJUnresolved == Decl(Elem(<<"j">>), Elem(<<"j">>), Elem(<<"$", "{", "x", "}">>), NoElem)
DeclJEmptyScope == Decl(Elem(<<"j">>), Elem(<<"j">>), Elem(<<"4.13.2">>), EmptyElem)
DeclBadGroup == Decl(Elem(<<"g", ":", "x">>), Elem(<<"a">>), Elem(<<"1.0.0">>), NoElem)

PropV == [tag |-> <<"v">>, text |-> Some(<<"1.3">>)]

PomMain == Pom(TRUE, <<[tag |-> <<"project.version">>, text |-> Some(<<"1.0.0">>)]>>,
               <<DeclJ, DeclIO>>)
PomJunit == Pom(TRUE, <<>>, <<DeclH>>)
PomLeaf == Pom(TRUE, <<>>, <<>>)
PomTestOnly == Pom(TRUE, <<>>, <<DeclHTest>>)
PomCycle == Pom(TRUE, <<>>, <<DeclA>>)
PomProp == Pom(TRUE, <<PropV>>, <<DeclHProp>>)
PomUnresolved == Pom(TRUE, <<>>, <<DeclJUnresolved>>)
PomEmptyScope == Pom(TRUE, <<>>, <<DeclJEmptyScope>>)
PomBadCoord == Pom(TRUE, <<>>, <<DeclBadGroup>>)

GraphPoms == {PomMain, PomJunit, PomLeaf, PomTestOnly, PomCycle, PomProp,
              PomUnresolved, PomEmptyScope, PomBadCoord}

RespURLError == Response(TRUE, 0, FALSE, PomLeaf)
RespNoContent == Response(FALSE, 204, TRUE, PomLeaf)
RespMalformed == Response(FALSE, StatusOK, FALSE, PomLeaf)
RespOK(pom) == Response(FALSE, StatusOK, TRUE, pom)

\* what the repository may answer to one fetch
Responses == {RespURLError, RespNoContent, RespMalformed} \cup {RespOK(p) : p \in GraphPoms}

RepoUrl == <<"r", "/">>
Roots == {CoordA, CoordJ, CoordShort}
MaxDepth == 2

-----------------------------------------------------------------------------
(* build_dependency_graph                                                   *)

EmptyGraph == [k \in {} |-> {}]

\* graph[package_coord] on a defaultdict(set): creates the key when missing
EnsureKey(g, c) == IF c \in DOMAIN g THEN g ELSE [x \in (DOMAIN g) \cup {c} |->
                                                      IF x = c THEN {} ELSE g[x]]

\* line 133: the bare graph[package_coord] of the absent-descriptor branch
\* (variant: the branch returns without touching the graph)
RecordLeaf_skip(g, c) == g
RecordLeaf(g, c) == EnsureKey(g, c)

\* graph[package_coord].add(dep)
\* (variant: the key is created but the dependency is not added)
AddEdge_forgotten(g, c, dep) == EnsureKey(g, c)
AddEdge(g, c, dep) == [EnsureKey(g, c) EXCEPT ![c] = @ \cup {dep}]

\* line 124
\* (variants: the bound is checked one level too late, one level too early)
DepthExceeded_late(current_depth, maxd) == current_depth > maxd + 1
DepthExceeded_early(current_depth, maxd) == current_depth >= maxd
DepthExceeded(current_depth, maxd) == current_depth > maxd
\* line 126
\* (variant: the revisit check is missing)
AlreadyVisited_never(package_coord, v) == FALSE
AlreadyVisited(package_coord, v) == package_coord \in v
\* the for statement's advance to the next dependency (line 136)
\* (variant: the loop never leaves its first dependency)
NextIndex_stuck(i) == i
NextIndex(i) == i + 1

Frame(package_coord, current_depth) ==
    [package_coord |-> package_coord, current_depth |-> current_depth,
     pc |-> "enter", dependencies |-> <<>>, i |-> 1]

Top == stack[Len(stack)]
Popped == SubSeq(stack, 1, Len(stack) - 1)

\* the frame on top returns to its caller
Return(step) ==
    /\ stack' = Popped
    /\ outcome' = IF Len(stack) = 1 THEN "returned" ELSE "running"
    /\ last' = [step |-> step, coord |-> Top.package_coord]
    /\ UNCHANGED <<exc, root, max_depth>>

\* an exception nobody catches unwinds every frame
Raise(e, step) ==
    /\ stack' = <<>>
    /\ outcome' = "raised"
    /\ exc' = e
    /\ last' = [step |-> step, coord |-> Top.package_coord]
    /\ UNCHANGED <<root, max_depth>>

Entering == outcome = "running" /\ Len(stack) > 0 /\ Top.pc = "enter"
Looping == outcome = "running" /\ Len(stack) > 0 /\ Top.pc = "loop"

\* no other part of the program runs during a build
OthersIdle == UNCHANGED <<urlVars, extractVars, vizVars>>

\* lines 124-125
DepthStop ==
    /\ Entering
    /\ DepthExceeded(Top.current_depth, max_depth)
    /\ Return("DepthStop")
    /\ UNCHANGED <<graph, visited, fetch_log, calls>>
    /\ OthersIdle

\* lines 126-127
VisitedStop ==
    /\ Entering
    /\ ~DepthExceeded(Top.current_depth, max_depth)
    /\ AlreadyVisited(Top.package_coord, visited)
    /\ Return("VisitedStop")
    /\ UNCHANGED <<graph, visited, fetch_log, calls>>
    /\ OthersIdle

\* lines 124-128: the call gets past both checks and marks its coordinate
Marks ==
    /\ Entering
    /\ ~DepthExceeded(Top.current_depth, max_depth)
    /\ ~AlreadyVisited(Top.package_coord, visited)
    /\ visited' = visited \cup {Top.package_coord}
    /\ UNCHANGED calls
    /\ OthersIdle

\* line 130: fetch_pom is called, and the repository answers with resp
Fetches(resp) ==
    fetch_log' = Append(fetch_log,
        [coord |-> Top.package_coord,
         url |-> construct_pom_url(Top.package_coord, RepoUrl).url,
         depth |-> Top.current_depth, resp |-> resp])

\* lines 128-129: construct_pom_url raises, and nothing catches it
VisitBadCoord ==
    /\ Marks
    /\ construct_pom_url(Top.package_coord, RepoUrl).raised
    /\ Raise("ValueError", "VisitBadCoord")
    /\ UNCHANGED <<graph, fetch_log>>

\* lines 128-134: the descriptor is absent
VisitAbsent ==
    /\ Marks
    /\ ~construct_pom_url(Top.package_coord, RepoUrl).raised
    /\ \E resp \in Responses :
           /\ ~fetch_pom(resp).some
           /\ Fetches(resp)
    /\ graph' = RecordLeaf(graph, Top.package_coord)
    /\ Return("VisitAbsent")

\* lines 128-135: extract_dependencies raises, and nothing catches it
VisitExtractRaise ==
    /\ Marks
    /\ ~construct_pom_url(Top.package_coord, RepoUrl).raised
    /\ \E resp \in Responses :
           /\ fetch_pom(resp).some
           /\ extract_dependencies(fetch_pom(resp).val).raised
           /\ Fetches(resp)
           /\ Raise(extract_dependencies(fetch_pom(resp).val).exc, "VisitExtractRaise")
    /\ UNCHANGED graph

\* lines 128-135: the descriptor is fetched and its dependencies extracted
VisitFetched ==
    /\ Marks
    /\ ~construct_pom_url(Top.package_coord, RepoUrl).raised
    /\ \E resp \in Responses :
           /\ fetch_pom(resp).some
           /\ ~extract_dependencies(fetch_pom(resp).val).raised
           /\ Fetches(resp)
           /\ stack' = [stack EXCEPT ![Len(stack)] =
                  [@ EXCEPT !.pc = "loop",
                            !.dependencies = extract_dependencies(fetch_pom(resp).val).val]]
    /\ last' = [step |-> "VisitFetched", coord |-> Top.package_coord]
    /\ UNCHANGED <<graph, outcome, exc, root, max_depth>>

\* lines 136-138: one iteration, up to and including the recursive call
LoopStep ==
    /\ Looping
    /\ Top.i <= Len(Top.dependencies)
    /\ LET dep == Top.dependencies[Top.i]
       IN /\ graph' = AddEdge(graph, Top.package_coord, dep)
          /\ calls' = calls \cup {[from |-> Top.package_coord, to |-> dep,
                                   depth |-> Top.current_depth + 1]}
          /\ stack' = Append([stack EXCEPT ![Len(stack)].i = NextIndex(@)],
                             Frame(dep, Top.current_depth + 1))
    /\ last' = [step |-> "LoopStep", coord |-> Top.package_coord]
    /\ UNCHANGED <<visited, fetch_log, outcome, exc, root, max_depth>>
    /\ OthersIdle

\* the for statement is exhausted: the call returns
LoopExit ==
    /\ Looping
    /\ Top.i > Len(Top.dependencies)
    /\ Return("LoopExit")
    /\ UNCHANGED <<graph, visited, fetch_log, calls>>
    /\ OthersIdle

build_dependency_graph ==
    \/ DepthStop
    \/ VisitedStop
    \/ VisitBadCoord
    \/ VisitAbsent
    \/ VisitExtractRaise
    \/ VisitFetched
    \/ LoopStep
    \/ LoopExit

\* main(), lines 206-209
InitBuild ==
    /\ root \in Roots
    /\ max_depth \in 0..MaxDepth
    /\ graph = EmptyGraph
    /\ visited = {}
    /\ stack = <<Frame(root, 0)>>
    /\ fetch_log = <<>>
    /\ calls = {}
    /\ outcome = "running"
    /\ exc = ""
    /\ last = [step |-> "init", coord |-> <<>>]

IdleBuild ==
    /\ root = <<>>
    /\ max_depth = 0
    /\ graph = EmptyGraph
    /\ visited = {}
    /\ stack = <<>>
    /\ fetch_log = <<>>
    /\ calls = {}
    /\ outcome = "idle"
    /\ exc = ""
    /\ last = [step |-> "init", coord |-> <<>>]

IdleUrl == url_in = <<>> /\ url_out = None
IdleExtract == pom_in = PomLeaf /\ deps_out = None
IdleViz ==
    /\ vz_pc = "idle"
    /\ vz_in = <<>>
    /\ files = EmptyDict
    /\ run_log = <<>>
    /\ printed = <<>>
    /\ vz_raised = FALSE

Init == InitBuild /\ IdleUrl /\ IdleExtract /\ IdleViz
Next == build_dependency_graph
Spec == Init /\ [][Next]_vars
\* the interpreter runs the call to its end: it never stops between steps
SpecLive == Init /\ [][Next]_vars /\ WF_vars(Next)

-----------------------------------------------------------------------------
(* Claims about build_dependency_graph                                      *)

Fetched(i) == fetch_pom(fetch_log[i].resp)
FetchedOK(c) == \E i \in DOMAIN fetch_log : fetch_log[i].coord = c /\ Fetched(i).some
EdgesOf(g, c) == IF c \in DOMAIN g THEN g[c] ELSE {}

\* C1: whatever the root, max_depth >= 0 and the descriptors the repository
\* answers with (cyclic and self-referential ones included), the outermost
\* call of build_dependency_graph eventually ends.
C1_Terminates == <>(outcome \in {"returned", "raised"})

\* the build returned although a dependency led back to the root
C1_Witness ==
    /\ outcome = "returned"
    /\ Cardinality(visited) >= 2
    /\ \E c \in calls : c.to = root /\ c.depth <= max_depth

\* C2: no coordinate is fetched twice in one build, and a call for a
\* coordinate that is already visited changes neither graph, visited nor the
\* fetches made.
C2_FetchedAtMostOnce ==
    /\ [](\A i, j \in DOMAIN fetch_log :
              fetch_log[i].coord = fetch_log[j].coord => i = j)
    /\ [][(Entering /\ Top.package_coord \in visited)
              => UNCHANGED <<graph, visited, fetch_log>>]_vars

\* a dependency led back to the root, and that call has just returned
C2_Witness ==
    /\ last = [step |-> "VisitedStop", coord |-> root]
    /\ Len(fetch_log) >= 2

\* C3: when the build has returned, every visited coordinate is a key of
\* the graph.
C3_VisitedAreKeys == outcome = "returned" => visited \subseteq DOMAIN graph

\* C4: when the build has returned, every coordinate whose fetch was absent
\* is a key of the graph with no edges, and no recursive call was made from it.
C4_AbsentIsLeaf ==
    outcome = "returned" =>
        \A i \in DOMAIN fetch_log :
            ~Fetched(i).some =>
                /\ fetch_log[i].coord \in DOMAIN graph
                /\ graph[fetch_log[i].coord] = {}
                /\ \A c \in calls : c.from # fetch_log[i].coord

\* the build returned after a dependency's fetch was absent
C4_Witness ==
    /\ outcome = "returned"
    /\ \E i \in DOMAIN fetch_log :
           /\ ~Fetched(i).some
           /\ fetch_log[i].coord # root
           /\ fetch_log[i].coord \in visited

\* the end-to-end scenario, with the fetches of test_build_dependency_graph:
\* g:a:1.0.0 and j:j:4.13.2 have descriptors, every other fetch is absent
EndToEnd ==
    /\ root = CoordA
    /\ max_depth = 2
    /\ \A i \in DOMAIN fetch_log :
           IF fetch_log[i].coord = CoordA THEN fetch_log[i].resp = RespOK(PomMain)
           ELSE IF fetch_log[i].coord = CoordJ THEN fetch_log[i].resp = RespOK(PomJunit)
           ELSE ~Fetched(i).some

EndToEndGraph ==
    (CoordA :> {CoordJ, CoordIO}) @@ (CoordJ :> {CoordH})
        @@ (CoordH :> {}) @@ (CoordIO :> {})

\* C5: when the build has returned, the edges of every coordinate fetched
\* successfully are exactly the coordinates extracted from its descriptor, no
\* other coordinate has an edge, and the end-to-end scenario yields its
\* four-key graph.
C5_EdgesAreExtracted ==
    outcome = "returned" =>
        /\ \A i \in DOMAIN fetch_log :
               Fetched(i).some =>
                   EdgesOf(graph, fetch_log[i].coord)
                       = Range(extract_dependencies(Fetched(i).val).val)
        /\ \A k \in DOMAIN graph : ~FetchedOK(k) => graph[k] = {}
        /\ EndToEnd => graph = EndToEndGraph

\* the end-to-end scenario has run to its end
C5_Witness == outcome = "returned" /\ EndToEnd /\ Len(fetch_log) = 4

\* C6: no failure of retrieval, parsing or extraction leaves the builder as
\* an exception; only the format error of the URL mapper may.
C6_NoFetchOrParseException == outcome = "raised" => exc = "ValueError"

\* the last fetch made is the one of coordinate c at depth d
LastFetchIs(log, c, d) ==
    /\ Len(log) > 0
    /\ log[Len(log)].coord = c
    /\ log[Len(log)].depth = d

\* C11: a call with current_depth > max_depth changes neither visited nor
\* the graph and makes no fetch, so every fetch is made at a depth in
\* 0..max_depth; a call at exactly max_depth for a coordinate not yet visited
\* marks it visited and fetches it.  Every call made from it has depth
\* max_depth + 1, so nothing is visited or fetched through it.
C11_DepthBound ==
    /\ [](\A i \in DOMAIN fetch_log : fetch_log[i].depth \in 0..max_depth)
    /\ [](\A c \in calls :
              (\E i \in DOMAIN fetch_log :
                   fetch_log[i].coord = c.from /\ fetch_log[i].depth = max_depth)
                  => c.depth = max_depth + 1)
    /\ [][(Entering /\ Top.current_depth > max_depth)
              => UNCHANGED <<graph, visited, fetch_log>>]_vars
    /\ [][(/\ Entering
           /\ Top.current_depth = max_depth
           /\ Top.package_coord \notin visited
           /\ ~construct_pom_url(Top.package_coord, RepoUrl).raised)
              => /\ Top.package_coord \in visited'
                 /\ Len(fetch_log') = Len(fetch_log) + 1
                 /\ LastFetchIs(fetch_log', Top.package_coord, max_depth)]_vars

\* a coordinate fetched at exactly max_depth, below the root, declared a
\* dependency; the call for that dependency has just returned and left it
\* unvisited and without a key
C11_Witness ==
    /\ max_depth >= 1
    /\ last.step = "DepthStop"
    /\ last.coord \notin visited
    /\ last.coord \notin DOMAIN graph
    /\ \E i \in DOMAIN fetch_log :
           /\ fetch_log[i].depth = max_depth
           /\ Fetched(i).some
           /\ [from |-> fetch_log[i].coord, to |-> last.coord,
               depth |-> max_depth + 1] \in calls

\* a call at exactly max_depth for a coordinate that is not yet visited
AtBoundary ==
    /\ Entering
    /\ Top.current_depth = max_depth
    /\ Top.package_coord \notin visited

\* C12 as stated: a coordinate visited at exactly max_depth is marked
\* visited without its descriptor being fetched, and when the build has
\* returned it has no edges, whatever its descriptor declares.
C12_BoundaryNeverFetched ==
    /\ [][AtBoundary => (Top.package_coord \in visited'
                            /\ fetch_log' = fetch_log)]_vars
    /\ [](outcome = "returned" =>
              \A i \in DOMAIN fetch_log :
                  fetch_log[i].depth = max_depth
                      => EdgesOf(graph, fetch_log[i].coord) = {})

\* C12 amended: a coordinate visited at exactly max_depth has its descriptor
\* fetched like any other, and when the build has returned its edges are
\* exactly the coordinates extracted from that descriptor (none when the
\* fetch was absent); only the calls made from it go beyond the bound.
C12_BoundaryIsFetched ==
    /\ [][(AtBoundary /\ ~construct_pom_url(Top.package_coord, RepoUrl).raised)
              => LastFetchIs(fetch_log', Top.package_coord, max_depth)
                     /\ Len(fetch_log') = Len(fetch_log) + 1]_vars
    /\ [](outcome = "returned" =>
              \A i \in DOMAIN fetch_log :
                  fetch_log[i].depth = max_depth =>
                      /\ EdgesOf(graph, fetch_log[i].coord)
                             = IF Fetched(i).some
                               THEN Range(extract_dependencies(Fetched(i).val).val)
                               ELSE {}
                      /\ \A c \in calls :
                             c.from = fetch_log[i].coord => c.depth > max_depth)

\* the build returned with edges recorded for a coordinate that was fetched
\* at exactly max_depth, one level below the root or deeper
C12_Witness ==
    /\ outcome = "returned"
    /\ max_depth >= 1
    /\ \E i \in DOMAIN fetch_log :
           /\ fetch_log[i].depth = max_depth
           /\ Fetched(i).some
           /\ EdgesOf(graph, fetch_log[i].coord) # {}

-----------------------------------------------------------------------------
(* The build as a function of the repository's answers and of the order in  *)
(* which each descriptor lists its dependencies                             *)

\* the two listings compared: as the descriptor has them, and back to front
Orders == {"listed", "reversed"}
Reverse(seq) == [k \in 1..Len(seq) |-> seq[Len(seq) + 1 - k]]
Listing(dependencies, order) ==
    IF order = "reversed" THEN Reverse(dependencies) ELSE dependencies

\* the repository a build has seen: the answer logged for a coordinate, and
\* no descriptor for a coordinate the build never asked for
RespOf(log, package_coord) ==
    IF \E i \in DOMAIN log : log[i].coord = package_coord
    THEN log[CHOOSE i \in DOMAIN log : log[i].coord = package_coord].resp
    ELSE RespURLError

\* main(), lines 206-207
EmptyState == [graph |-> EmptyGraph, visited |-> {}, raised |-> FALSE]

RECURSIVE BuildFrom(_, _, _, _, _, _)
RECURSIVE BuildLoop(_, _, _, _, _, _, _, _)

\* lines 124-135 of build_dependency_graph, st being graph and visited as
\* the call finds them; raised is an exception on its way out
BuildFrom(package_coord, current_depth, st, maxd, log, order) ==
    IF st.raised \/ DepthExceeded(current_depth, maxd) THEN st
    ELSE IF AlreadyVisited(package_coord, st.visited) THEN st
    ELSE LET marked == [st EXCEPT !.visited = @ \cup {package_coord}]
             pom_tree == fetch_pom(RespOf(log, package_coord))
         IN IF construct_pom_url(package_coord, RepoUrl).raised
            THEN [marked EXCEPT !.raised = TRUE]
            ELSE IF ~pom_tree.some
            THEN [marked EXCEPT !.graph = RecordLeaf(@, package_coord)]
            ELSE IF extract_dependencies(pom_tree.val).raised
            THEN [marked EXCEPT !.raised = TRUE]
            ELSE BuildLoop(package_coord, current_depth,
                           Listing(extract_dependencies(pom_tree.val).val, order),
                           1, marked, maxd, log, order)

\* lines 136-138: the loop from its i-th dependency on
BuildLoop(package_coord, current_depth, dependencies, i, st, maxd, log, order) ==
    IF st.raised \/ i > Len(dependencies) THEN st
    ELSE BuildLoop(package_coord, current_depth, dependencies, NextIndex(i),
                   BuildFrom(dependencies[i], current_depth + 1,
                             [st EXCEPT !.graph =
                                  AddEdge(@, package_coord, dependencies[i])],
                             maxd, log, order),
                   maxd, log, order)

\* C13: for the root, max_depth and descriptors of a build that has
\* returned, the build comes to the same graph (keys and edge sets) and the
\* same visited set whichever way round each descriptor lists its
\* dependencies, also when a coordinate is reachable by paths of different
\* lengths.
C13_OrderIndependent ==
    outcome = "returned" =>
        \A order \in Orders :
            LET other == BuildFrom(root, 0, EmptyState, max_depth, fetch_log, order)
            IN /\ ~other.raised
               /\ other.graph = graph
               /\ other.visited = visited

-----------------------------------------------------------------------------
(* construct_pom_url applied to coordinate strings of every shape           *)

UrlAlphabet == {"g", ":", "."}
MaxCoordLen == 5
CoordStrings == UNION {[1..n -> UrlAlphabet] : n \in 0..MaxCoordLen}
RepoUrls == {<<"r">>, <<"r", "/">>, <<"r", "/", "/">>}

InitUrl ==
    /\ url_in \in [package_coord : CoordStrings, repo_url : RepoUrls]
    /\ url_out = None
    /\ IdleBuild /\ IdleExtract /\ IdleViz

ConstructPomUrl ==
    /\ ~url_out.some
    /\ url_in # <<>>
    /\ url_out' = Some(construct_pom_url(url_in.package_coord, url_in.repo_url))
    /\ UNCHANGED <<url_in, buildVars, extractVars, vizVars>>

SpecUrl == InitUrl /\ [][ConstructPomUrl]_vars

\* s is three non-empty segments separated by exactly two colons
ThreeNonEmptySegments(s) ==
    \E i, j \in 1..Len(s) :
        /\ 1 < i /\ i + 1 < j /\ j < Len(s)
        /\ \A k \in 1..Len(s) : (s[k] = ":") <=> (k \in {i, j})

\* C7: construct_pom_url raises, with a message that holds the offending
\* string, for every string that is not three non-empty colon-separated
\* segments, and returns a URL for the others only.
C7_RaisesUnlessThreeNonEmpty ==
    url_out.some =>
        /\ url_out.val.raised <=> ~ThreeNonEmptySegments(url_in.package_coord)
        /\ url_out.val.raised => Contains(url_out.val.message, url_in.package_coord)

-----------------------------------------------------------------------------
(* extract_dependencies applied to descriptors of every shape               *)

DeclRuntime == Decl(Elem(<<"g">>), Elem(<<"r">>), Elem(<<"1.0">>), Elem(<<"runtime">>))
DeclSystemPadded ==
    Decl(Elem(<<"g">>), Elem(<<"s">>), Elem(<<" ", "1.0", " ">>), Elem(<<" ", "system", " ">>))
DeclProvided == Decl(Elem(<<"g">>), Elem(<<"p">>), Elem(<<"1.0">>), Elem(<<"provided">>))
DeclImport == Decl(Elem(<<"g">>), Elem(<<"b">>), Elem(<<"1.0">>), Elem(<<"import">>))
DeclNoVersion == Decl(Elem(<<"g">>), Elem(<<"n">>), NoElem, NoElem)
DeclEmptyVersion == Decl(Elem(<<"g">>), Elem(<<"e">>), EmptyElem, NoElem)
DeclNoGroup == Decl(NoElem, Elem(<<"a">>), Elem(<<"1.0">>), NoElem)
DeclNoArtifact == Decl(Elem(<<"g">>), NoElem, Elem(<<"1.0">>), NoElem)

DeclPool == {DeclJ, DeclIO, DeclHTest, DeclHProp, DeclJUnresolved, DeclJEmptyScope,
             DeclRuntime, DeclSystemPadded, DeclProvided, DeclImport, DeclNoVersion,
             DeclEmptyVersion, DeclNoGroup, DeclNoArtifact}

PropLists == {<<>>, <<PropV>>,
              <<[tag |-> <<"v">>, text |-> None], [tag |-> <<"x">>, text |-> Some(<<" ", "2.0", " ">>)]>>}

MaxDecls == 2
DeclLists == UNION {[1..n -> DeclPool] : n \in 0..MaxDecls}
ExtractPoms == {Pom(ns, props, deps) : ns \in BOOLEAN, props \in PropLists, deps \in DeclLists}

InitExtract ==
    /\ pom_in \in ExtractPoms
    /\ deps_out = None
    /\ IdleBuild /\ IdleUrl /\ IdleViz

ExtractDependencies ==
    /\ ~deps_out.some
    /\ pom_in \in ExtractPoms
    /\ deps_out' = Some(extract_dependencies(pom_in))
    /\ UNCHANGED <<pom_in, buildVars, urlVars, vizVars>>

SpecExtract == InitExtract /\ [][ExtractDependencies]_vars

\* the declared scope is compile, runtime or system, or there is none
ScopeIncluded(scope) ==
    ~scope.present \/ (scope.text.some /\ Strip(scope.text.val) \in AllowedScopes)

\* a complete declaration: groupId, artifactId and a version text
Complete(d) == d.groupId.present /\ d.artifactId.present /\ Truthy(d.version.text)

DeclCoord(d, properties) ==
    ElemText(d.groupId) \o <<":">> \o ElemText(d.artifactId) \o <<":">>
        \o substitute_properties(Strip(d.version.text.val), properties)

RECURSIVE Qualifying(_, _)
Qualifying(decls, properties) ==
    IF Len(decls) = 0 THEN <<>>
    ELSE (IF Complete(Head(decls)) /\ ScopeIncluded(Head(decls).scope)
          THEN <<DeclCoord(Head(decls), properties)>> ELSE <<>>)
         \o Qualifying(Tail(decls), properties)

\* C8: with or without the namespace declaration, extract_dependencies
\* returns, in declaration order, exactly the complete declarations whose
\* scope is compile, runtime, system or unspecified.
C8_ScopeFilter ==
    deps_out.some =>
        /\ ~deps_out.val.raised
        /\ deps_out.val.val = Qualifying(pom_in.dependencies, extract_properties(pom_in))

HasPlaceholder(s) == \E i \in 1..Len(s) : MatchesAtHead(SubSeq(s, i, Len(s)))

VersionOf(coord) == LET parts == Split(coord, ":") IN parts[Len(parts)]

\* C9: every coordinate extract_dependencies emits has a non-empty version
\* without a ${...} placeholder.
C9_VersionsConcrete ==
    (deps_out.some /\ ~deps_out.val.raised) =>
        \A i \in DOMAIN deps_out.val.val :
            /\ Len(VersionOf(deps_out.val.val[i])) > 0
            /\ ~HasPlaceholder(VersionOf(deps_out.val.val[i]))

-----------------------------------------------------------------------------
(* sanitize_filename and visualize_graph                                    *)

\* the character class [\\/:*?"<>|] of line 158
UnsafeChars == {"\\", "/", ":", "*", "?", "\"", "<", ">", "|"}

sanitize_filename(name) ==
    [i \in 1..Len(name) |-> IF name[i] \in UnsafeChars THEN "_" ELSE name[i]]

\* os.path.join(output_dir, name)
PathJoin(dir, name) ==
    IF Len(name) > 0 /\ name[1] = "/" THEN name
    ELSE IF Len(dir) = 0 \/ dir[Len(dir)] = "/" THEN dir \o name
    ELSE dir \o <<"/">> \o name

\* lines 165-167
DotFilename(output_dir, package_coord) ==
    PathJoin(output_dir, sanitize_filename(package_coord) \o <<".dot">>)
ImgFilename(output_dir, package_coord) ==
    PathJoin(output_dir, sanitize_filename(package_coord) \o <<".png">>)

\* line 174
Command(graphviz_path, dot_filename, img_filename) ==
    <<graphviz_path, <<"-Tpng">>, dot_filename, <<"-o">>, img_filename>>

\* line 176: the exit status that lets the messages be printed
\* (variant: the exit status is ignored)
ReportsSuccess_always(returncode) == TRUE
ReportsSuccess(returncode) == returncode = 0

\* subprocess.run is called without check=True (line 175): a non-zero exit
\* status raises nothing
CheckReturnCode == FALSE

NameAlphabet == {"g", ":", "/"}
MaxNameLen == 3
PackageNames == UNION {[1..n -> NameAlphabet] : n \in 1..MaxNameLen}
DotData == {<<"digraph G {}">>, <<"digraph G { a -> b }">>}
OutputDirs == {<<"out">>, <<"out", "/">>}
GraphvizPath == <<"/", "usr", "/", "bin", "/", "dot">>
ReturnCodes == {0, 1, 2}

InitViz ==
    /\ vz_in \in [package_coord : PackageNames, dot_data : DotData,
                  output_dir : OutputDirs]
    /\ vz_pc = "start"
    /\ \E stale \in BOOLEAN :
           files = IF stale
                   THEN DictSet(EmptyDict,
                                DotFilename(vz_in.output_dir, vz_in.package_coord),
                                <<"stale">>)
                   ELSE EmptyDict
    /\ run_log = <<>>
    /\ printed = <<>>
    /\ vz_raised = FALSE
    /\ IdleBuild /\ IdleUrl /\ IdleExtract

\* lines 165-171: the names, and the description written to the .dot file
WriteDot ==
    /\ vz_pc = "start"
    /\ files' = DictSet(files, DotFilename(vz_in.output_dir, vz_in.package_coord),
                        vz_in.dot_data)
    /\ vz_pc' = "written"
    /\ UNCHANGED <<vz_in, run_log, printed, vz_raised>>
    /\ UNCHANGED <<buildVars, urlVars, extractVars>>

\* lines 174-175: the collaborator runs to its end and leaves an exit status;
\* with status 0 it has written the image
RunGraphviz ==
    /\ vz_pc = "written"
    /\ \E returncode \in ReturnCodes :
           LET dot_filename == DotFilename(vz_in.output_dir, vz_in.package_coord)
               img_filename == ImgFilename(vz_in.output_dir, vz_in.package_coord)
           IN /\ run_log' = Append(run_log,
                      [cmd |-> Command(GraphvizPath, dot_filename, img_filename),
                       returncode |-> returncode])
              /\ files' = IF returncode = 0
                          THEN DictSet(files, img_filename, <<"png">>)
                          ELSE files
              /\ IF CheckReturnCode /\ returncode # 0
                 THEN vz_raised' = TRUE /\ vz_pc' = "done"
                 ELSE vz_raised' = FALSE /\ vz_pc' = "ran"
    /\ UNCHANGED <<vz_in, printed>>
    /\ UNCHANGED <<buildVars, urlVars, extractVars>>

\* lines 176-178
ReturnSilently ==
    /\ vz_pc = "ran"
    /\ ~ReportsSuccess(run_log[Len(run_log)].returncode)
    /\ vz_pc' = "done"
    /\ UNCHANGED <<vz_in, files, run_log, printed, vz_raised>>
    /\ UNCHANGED <<buildVars, urlVars, extractVars>>

\* lines 181-182
Report ==
    /\ vz_pc = "ran"
    /\ ReportsSuccess(run_log[Len(run_log)].returncode)
    /\ printed' = printed \o
           <<[what |-> "dot saved",
              path |-> DotFilename(vz_in.output_dir, vz_in.package_coord)],
             [what |-> "image saved",
              path |-> ImgFilename(vz_in.output_dir, vz_in.package_coord)]>>
    /\ vz_pc' = "done"
    /\ UNCHANGED <<vz_in, files, run_log, vz_raised>>
    /\ UNCHANGED <<buildVars, urlVars, extractVars>>

visualize_graph ==
    \/ WriteDot
    \/ RunGraphviz
    \/ ReturnSilently
    \/ Report

SpecViz == InitViz /\ [][visualize_graph]_vars

\* <output_dir>/<name><ext>, with the characters \ / : * ? " < > | of name
\* replaced by _
SafePath(output_dir, name, ext) ==
    RStrip(output_dir, "/") \o <<"/">>
        \o [i \in 1..Len(name) |->
                IF name[i] \in {"\\", "/", ":", "*", "?", "\"", "<", ">", "|"}
                THEN "_" ELSE name[i]]
        \o <<ext>>

\* C10: the description is in <sanitized-coordinate>.dot whenever the
\* collaborator has been invoked, and stays there; the collaborator is invoked
\* at most once, and exactly once in a finished run, with
\* [-Tpng, dot path, -o, png path]; the messages are printed only after exit
\* status 0; after a non-zero status nothing is printed and nothing is raised.
C10_RenderProtocol ==
    vz_pc # "idle" =>
        LET dot == SafePath(vz_in.output_dir, vz_in.package_coord, ".dot")
            png == SafePath(vz_in.output_dir, vz_in.package_coord, ".png")
        IN /\ Len(run_log) <= 1
           /\ vz_pc = "done" => Len(run_log) = 1
           /\ \A i \in DOMAIN run_log :
                  /\ run_log[i].cmd = <<GraphvizPath, <<"-Tpng">>, dot, <<"-o">>, png>>
                  /\ dot \in DOMAIN files
                  /\ files[dot] = vz_in.dot_data
           /\ printed # <<>> => (Len(run_log) = 1 /\ run_log[1].returncode = 0)
           /\ (vz_pc = "done" /\ run_log[1].returncode = 0) => Len(printed) = 2
           /\ (vz_pc = "done" /\ run_log[1].returncode # 0) =>
                  (printed = <<>> /\ ~vz_raised)

\* a run has ended after the collaborator exited with a non-zero status,
\* over a stale .dot file and a coordinate with characters to replace
C10_Witness ==
    /\ vz_pc = "done"
    /\ run_log[1].returncode # 0
    /\ vz_in.package_coord = <<"g", ":", "/">>
    /\ SafePath(vz_in.output_dir, vz_in.package_coord, ".dot") \in DOMAIN files

=============================================================================
